---- MODULE Spec2Model ----
(***************************************************************************)
(* A model of the Cloudflare Workers API proxy (cf_workers_proxy.js):      *)
(* anonymous token issuance and verification, the per-identity sliding     *)
(* window rate limiter and the usage statistics, both kept in Workers KV.  *)
(***************************************************************************)
EXTENDS Integers, Sequences, FiniteSets, TLC

VARIABLES
    clock,          \* Date.now(): milliseconds since the epoch
    env,            \* the Worker's env bindings (JWT_SECRET)
    RATE_LIMIT_KV,  \* env.RATE_LIMIT_KV: key -> [value, expiration]
    USER_STATS_KV,  \* env.USER_STATS_KV: key -> [value]
    last,           \* the most recent operation and what it returned
    admitted,       \* history: per identity, the times checkRateLimit allowed
    storeFailed,    \* history: identities whose limiter met a store failure
    tok,            \* the token string under test (codec runs)
    nticks,         \* number of clock advances so far
    ncalls,         \* number of operations so far
    handlers,       \* the invocations of the Worker in flight, each at an await
    client          \* the React client: its hook state and pending timer

vars == <<clock, env, RATE_LIMIT_KV, USER_STATS_KV, last, admitted,
          storeFailed, tok, nticks, ncalls, handlers, client>>

----------------------------------------------------------------------------
(* Bounds of the model *)

MaxTicks == 2
MaxCalls == 3
MaxRequests == 2
MaxInFlight == 2
MaxStarts == 4

----------------------------------------------------------------------------
(* Millisecond quantities.  A JavaScript number of milliseconds n is held as
   [s, ms] with n = s * 1000 + ms and 0 <= ms < 1000, so that thirty days of
   milliseconds (2,592,000,000) stays inside 32-bit integers. *)

Norm(s, ms) == [s |-> s + (ms \div 1000), ms |-> ms % 1000]
SecToMs(n) == [s |-> n, ms |-> 0]                     \* n * 1000
MsPlus(a, b) == Norm(a.s + b.s, a.ms + b.ms)          \* a + b
MsMinus(a, b) == Norm(a.s - b.s, a.ms - b.ms)         \* a - b
MsLess(a, b) == a.s < b.s \/ (a.s = b.s /\ a.ms < b.ms)   \* a < b
MsLeq(a, b) == ~MsLess(b, a)
Floor1000(a) == a.s                                   \* Math.floor(a / 1000)
Ceil1000(a) == a.s + (IF a.ms > 0 THEN 1 ELSE 0)      \* Math.ceil(a / 1000)

----------------------------------------------------------------------------
(* Strings.  A string is a sequence of atoms: the separator "." or a run of
   text that holds no ".".  The runs are what btoa, JSON.stringify and
   String.fromCharCode produce. *)

Dot == [t |-> "."]
EmptyString == << >>

\* String.prototype.split('.')
RECURSIVE Split(_)
Split(str) ==
    IF \A i \in 1..Len(str) : str[i] # Dot
    THEN <<str>>
    ELSE LET i == CHOOSE k \in 1..Len(str) :
                      str[k] = Dot /\ \A j \in 1..(k - 1) : str[j] # Dot
         IN  <<SubSeq(str, 1, i - 1)>> \o Split(SubSeq(str, i + 1, Len(str)))

\* JSON.stringify(v) / JSON.parse(str)
JsonStringify(v) == <<[t |-> "json", value |-> v]>>
JsonParse(str) ==
    IF Len(str) = 1 /\ str[1].t = "json"
    THEN [ok |-> TRUE, value |-> str[1].value]
    ELSE [ok |-> FALSE, error |-> "SyntaxError"]

\* btoa(str): the base64 text of str, padded.
Btoa(str) == <<[t |-> "b64", text |-> str, form |-> "padded"]>>
\* atob(str): forgiving base64 decode; the padding may be missing.  Throws
\* on anything that is not base64 text.
Atob(str) ==
    IF Len(str) = 1 /\ str[1].t = "b64"
    THEN [ok |-> TRUE, value |-> str[1].text]
    ELSE [ok |-> FALSE, error |-> "InvalidCharacterError"]

\* new TextEncoder().encode(v): v is converted to a string first, so an
\* object that is not a string encodes as "[object Object]".
JsString(s) == [t |-> "string", s |-> s]
ObjectObject == "[object Object]"
TextEncode(v) == IF v.t = "string" THEN v.s ELSE ObjectObject

\* crypto.subtle.sign('HMAC', key, data): the MAC is a function of the key
\* bytes and the data bytes, and of nothing else.
HmacSign(keyBytes, data) == [t |-> "mac", key |-> keyBytes, data |-> data]
\* crypto.subtle.verify('HMAC', key, signature, data)
HmacVerify(keyBytes, signature, data) == signature = <<HmacSign(keyBytes, data)>>
\* String.fromCharCode(...new Uint8Array(signature))
FromCharCode(mac) == <<mac>>

----------------------------------------------------------------------------
(* Program constants *)

windowMs == SecToMs(60 * 60)
maxRequests == 100
TokenTtlSeconds == 30 * 24 * 60 * 60
RetentionMs == SecToMs(30 * 24 * 60 * 60)

----------------------------------------------------------------------------
(* Identity and credential codec *)

\* generateAnonymousUserId: `anon_${timestamp}_${randomHex}`
generateAnonymousUserId(now, randomHex) ==
    [prefix |-> "anon", timestamp |-> now, random |-> randomHex]

JwtHeader == [alg |-> "HS256", typ |-> "JWT"]

signJWT(payload, secret) ==
    LET encodedHeader == Btoa(JsonStringify(JwtHeader))
        encodedPayload == Btoa(JsonStringify(payload))
        data == encodedHeader \o <<Dot>> \o encodedPayload
        signature == HmacSign(TextEncode(secret), data)
        encodedSignature == Btoa(FromCharCode(signature))
    IN  data \o <<Dot>> \o encodedSignature

generateAnonymousToken(userId, e, now) ==
    LET nowSec == Floor1000(now)
        exp == nowSec + TokenTtlSeconds
        payload == [userId |-> userId, iat |-> nowSec, exp |-> exp,
                    type |-> "anonymous"]
    IN  signJWT(payload, e.JWT_SECRET)

\* a wrong TokenExpired, kept for comparison: a token is refused from the second of exp on
TokenExpiredAtExp(payload, now) ==
    /\ "exp" \in DOMAIN payload
    /\ payload.exp # 0
    /\ MsLeq(SecToMs(payload.exp), now)

\* a wrong TokenExpired, kept for comparison: exp is compared with milliseconds
TokenExpiredInMs(payload, now) ==
    /\ "exp" \in DOMAIN payload
    /\ payload.exp # 0
    /\ payload.exp < now.s \div 1000

\* payload.exp && payload.exp < Date.now() / 1000
TokenExpired(payload, now) ==
    /\ "exp" \in DOMAIN payload
    /\ payload.exp # 0
    /\ MsLess(SecToMs(payload.exp), now)

\* The destructuring  const [a, b, c] = token.split('.')  reads the first
\* three segments; a missing one is undefined.
Segment(parts, i) == IF i <= Len(parts) THEN parts[i] ELSE EmptyString

Fail(msg) == [ok |-> FALSE, error |-> msg]

verifyJWT(token, secret, now) ==
    LET parts == Split(token)
        encodedHeader == Segment(parts, 1)
        encodedPayload == Segment(parts, 2)
        encodedSignature == Segment(parts, 3)
        data == encodedHeader \o <<Dot>> \o encodedPayload
        signature == Atob(encodedSignature)
        decoded == Atob(encodedPayload)
        parsed == IF decoded.ok THEN JsonParse(decoded.value) ELSE decoded
    IN  IF encodedHeader = EmptyString \/ encodedPayload = EmptyString
           \/ encodedSignature = EmptyString
        THEN Fail("Token verification failed: Invalid token format")
        ELSE IF ~signature.ok
        THEN Fail("Token verification failed: InvalidCharacterError")
        ELSE IF ~HmacVerify(TextEncode(secret), signature.value, data)
        THEN Fail("Token verification failed: Invalid signature")
        ELSE IF ~parsed.ok
        THEN Fail("Token verification failed: SyntaxError")
        ELSE IF TokenExpired(parsed.value, now)
        THEN Fail("Token verification failed: Token expired")
        ELSE [ok |-> TRUE, payload |-> parsed.value]

verifyAnonymousToken(token, secret, now) ==
    LET r == verifyJWT(token, secret, now)
    IN  IF r.ok /\ "type" \in DOMAIN r.payload /\ r.payload.type = "anonymous"
        THEN r
        ELSE Fail("Invalid anonymous token")

----------------------------------------------------------------------------
(* Workers KV: get returns null for a missing or expired key; put replaces
   the whole value.  Every get sees the latest completed put. *)

Null == [null |-> TRUE]
EmptyKV == [k \in {} |-> Null]
NeverExpires == [expires |-> FALSE]

KvLive(kv, key, now) ==
    /\ key \in DOMAIN kv
    /\ (kv[key].expiration.expires => MsLess(now, kv[key].expiration.at))

KvGet(kv, key, now) ==
    IF KvLive(kv, key, now)
    THEN [found |-> TRUE, value |-> kv[key].value]
    ELSE [found |-> FALSE]

KvPut(kv, key, value, expiration) ==
    [k \in DOMAIN kv \cup {key} |->
        IF k = key THEN [value |-> value, expiration |-> expiration] ELSE kv[k]]

\* { expirationTtl: seconds }: the key goes away that many seconds after now.
ExpirationTtl(now, seconds) == [expires |-> TRUE, at |-> MsPlus(now, SecToMs(seconds))]

\* a JavaScript string used as a condition: null and "" are falsy
Truthy(got) == got.found /\ got.value # EmptyString

\* a wrong rateLimitKey, kept for comparison: one window for all identities
rateLimitKeyShared(userId) == [ns |-> "rate_limit", id |-> "all"]

\* `rate_limit:${userId}` and `user_stats:${userId}`
rateLimitKey(userId) == [ns |-> "rate_limit", id |-> userId]
statsKey(userId) == [ns |-> "user_stats", id |-> userId]

----------------------------------------------------------------------------
(* Usage statistics *)

\* new Date(now).toISOString().split('T')[0]: the UTC calendar date, held as
\* the number of whole days since the epoch.
ISODate(now) == now.s \div (24 * 60 * 60)
\* new Date("YYYY-MM-DD"): midnight UTC of that date, in milliseconds
DateOf(date) == SecToMs(date * (24 * 60 * 60))

NoDays == [d \in {} |-> 0]

NewStats(now) ==
    [createdAt |-> now, totalRequests |-> 0, lastRequestAt |-> Null,
     dailyRequests |-> NoDays]

\* store failures a call meets: "none", "get" (the get throws) or "put"
Failures == {"none", "get", "put"}

\* a wrong StatsFailureEscapes, kept for comparison: the failure is thrown on
StatsFailureRethrown(fail) == fail # "none"

\* catch (error) { console.error(...) } of initializeUserStats and of
\* updateUserStats: whether a failure of the usage store leaves the function
StatsFailureEscapes(fail) == FALSE

initializeUserStats(userId, statsKV, now, fail) ==
    IF fail = "put"
    THEN statsKV
    ELSE KvPut(statsKV, statsKey(userId), JsonStringify(NewStats(now)), NeverExpires)

\* a wrong BumpDay, kept for comparison: the day's count is set, not incremented
BumpDayOverwrite(daily, today) ==
    [d \in DOMAIN daily \cup {today} |-> IF d = today THEN 1 ELSE daily[d]]

\* (stats.dailyRequests[today] || 0) + 1
BumpDay(daily, today) ==
    [d \in DOMAIN daily \cup {today} |->
        IF d = today
        THEN (IF today \in DOMAIN daily THEN daily[today] ELSE 0) + 1
        ELSE daily[d]]

\* a wrong OlderThanCutoff, kept for comparison: the cutoff is taken a day too early
OlderThanCutoffDayLate(date, cutoffDate) ==
    MsLess(DateOf(date), MsMinus(cutoffDate, SecToMs(24 * 60 * 60)))

\* new Date(date) < cutoffDate
OlderThanCutoff(date, cutoffDate) == MsLess(DateOf(date), cutoffDate)

\* Object.keys(...).forEach(date => { if (old) delete ... })
PruneDays(daily, now) ==
    LET cutoffDate == MsMinus(now, RetentionMs)
        keep == {d \in DOMAIN daily : ~OlderThanCutoff(d, cutoffDate)}
    IN  [d \in keep |-> daily[d]]

UpdatedStats(stats, now) ==
    LET today == ISODate(now)
    IN  [stats EXCEPT !.totalRequests = @ + 1,
                      !.lastRequestAt = now,
                      !.dailyRequests = PruneDays(BumpDay(@, today), now)]

updateUserStats(userId, statsKV, now, fail) ==
    LET existingStats == KvGet(statsKV, statsKey(userId), now)
        stats == IF Truthy(existingStats)
                 THEN JsonParse(existingStats.value).value
                 ELSE NewStats(now)
    IN  IF fail = "none"
        THEN KvPut(statsKV, statsKey(userId), JsonStringify(UpdatedStats(stats, now)),
                   NeverExpires)
        ELSE statsKV

----------------------------------------------------------------------------
(* Rate limiter *)

\* now - timestamp < windowMs
InWindow(timestamp, now) == MsLess(MsMinus(now, timestamp), windowMs)

\* a wrong FilterWindow, kept for comparison: nothing is dropped
FilterWindowKeepsAll(requests, now) == requests

\* requests.filter(timestamp => now - timestamp < windowMs)
FilterWindow(requests, now) == SelectSeq(requests, LAMBDA ts : InWindow(ts, now))

\* Math.min(...requests)
MathMin(requests) ==
    CHOOSE x \in {requests[i] : i \in 1..Len(requests)} :
        \A j \in 1..Len(requests) : MsLeq(x, requests[j])

\* a wrong RetryAfter, kept for comparison: rounds down
RetryAfterFloor(requests, now) ==
    Floor1000(MsMinus(MsPlus(MathMin(requests), windowMs), now))

\* Math.ceil((oldestRequest + windowMs - now) / 1000)
RetryAfter(requests, now) ==
    Ceil1000(MsMinus(MsPlus(MathMin(requests), windowMs), now))

\* a wrong OverLimit, kept for comparison: off by one
OverLimitOffByOne(requests) == Len(requests) > maxRequests

\* requests.length >= maxRequests
OverLimit(requests) == Len(requests) >= maxRequests

\* a wrong FailOpen, kept for comparison: a failed check turns the request away
FailClosed == [allowed |-> FALSE, retryAfter |-> 0]

\* the catch block: a failed check lets the request through
FailOpen == [allowed |-> TRUE]

\* a wrong checkRateLimit, kept for comparison: a denied call is counted too
checkRateLimitCountsDenied(userId, rateKV, statsKV, now, rlFail, stFail) ==
    LET rateData == KvGet(rateKV, rateLimitKey(userId), now)
        stored == IF Truthy(rateData)
                  THEN JsonParse(rateData.value).value.array
                  ELSE << >>
        requests == FilterWindow(stored, now)
        pushed == Append(requests, now)
        unchanged == [rate |-> rateKV, stats |-> statsKV]
        written == KvPut(rateKV, rateLimitKey(userId),
                         JsonStringify([array |-> pushed]),
                         ExpirationTtl(now, Ceil1000(windowMs)))
    IN  IF rlFail = "get"
        THEN unchanged @@ [result |-> FailOpen, failed |-> "get"]
        ELSE IF rlFail = "put"
        THEN unchanged @@ [result |-> FailOpen, failed |-> "put"]
        ELSE IF OverLimit(requests)
        THEN [rate |-> written, stats |-> statsKV,
              result |-> [allowed |-> FALSE, retryAfter |-> RetryAfter(requests, now)],
              failed |-> "none"]
        ELSE [rate |-> written,
              stats |-> updateUserStats(userId, statsKV, now, stFail),
              result |-> [allowed |-> TRUE],
              failed |-> "none"]

\* checkRateLimit: the decision and the two stores as it leaves them.
\* rlFail and stFail say which operation of RATE_LIMIT_KV and of
\* USER_STATS_KV throws, should the call reach it.
checkRateLimit(userId, rateKV, statsKV, now, rlFail, stFail) ==
    LET rateData == KvGet(rateKV, rateLimitKey(userId), now)
        stored == IF Truthy(rateData)
                  THEN JsonParse(rateData.value).value.array
                  ELSE << >>
        requests == FilterWindow(stored, now)
        pushed == Append(requests, now)
        unchanged == [rate |-> rateKV, stats |-> statsKV]
    IN  IF rlFail = "get"
        THEN unchanged @@ [result |-> FailOpen, failed |-> "get"]
        ELSE IF OverLimit(requests)
        THEN unchanged @@
             [result |-> [allowed |-> FALSE, retryAfter |-> RetryAfter(requests, now)],
              failed |-> "none"]
        ELSE IF rlFail = "put"
        THEN unchanged @@ [result |-> FailOpen, failed |-> "put"]
        ELSE [rate |-> KvPut(rateKV, rateLimitKey(userId),
                             JsonStringify([array |-> pushed]),
                             ExpirationTtl(now, Ceil1000(windowMs))),
              stats |-> updateUserStats(userId, statsKV, now, stFail),
              result |-> [allowed |-> TRUE],
              failed |-> "none"]

----------------------------------------------------------------------------
(* The environment the model runs in *)

Secrets == {"s3cr3t-A", "s3cr3t-B"}
Env(secret) == [t |-> "object", JWT_SECRET |-> JsString(secret)]

StartOfDay == SecToMs(19675 * 24 * 60 * 60)
StartTimes == {StartOfDay, MsPlus(StartOfDay, [s |-> 86399, ms |-> 500])}

\* two identities issued earlier
UserA == generateAnonymousUserId(SecToMs(19000 * 24 * 60 * 60), "00a1")
UserB == generateAnonymousUserId(SecToMs(19000 * 24 * 60 * 60), "00b2")
Users == {UserA, UserB}

Millisecond == [s |-> 0, ms |-> 1]
Second == SecToMs(1)
Hour == SecToMs(60 * 60)
ThirtyDays == SecToMs(30 * 24 * 60 * 60)

\* The stores after k <= maxRequests calls of checkRateLimit for userId at
\* the time now, one after the other, none meeting a store failure.
AfterCalls(k, userId, now) ==
    IF k = 0
    THEN [rate |-> EmptyKV, stats |-> EmptyKV]
    ELSE [rate |-> KvPut(EmptyKV, rateLimitKey(userId),
                         JsonStringify([array |-> [i \in 1..k |-> now]]),
                         ExpirationTtl(now, Ceil1000(windowMs))),
          stats |-> KvPut(EmptyKV, statsKey(userId),
                          JsonStringify([createdAt |-> now, totalRequests |-> k,
                                         lastRequestAt |-> now,
                                         dailyRequests |-> [d \in {ISODate(now)} |-> k]]),
                          NeverExpires)]

\* the number of calls UserA has already made when a run starts
PriorCalls == {0, 99, 100}

NoOp == [op |-> "none"]

\* no invocation in flight, and no client
Idle == [pc |-> "idle"]
NoHandlers == [h \in 1..MaxInFlight |-> Idle]
NoClient == [mounted |-> FALSE]

InitLimiter ==
    /\ clock \in StartTimes
    /\ env = Env("s3cr3t-A")
    /\ \E k \in PriorCalls :
          LET was == AfterCalls(k, UserA, clock)
          IN  /\ RATE_LIMIT_KV = was.rate
              /\ USER_STATS_KV = was.stats
              /\ admitted = [u \in Users |->
                                IF u = UserA THEN [i \in 1..k |-> clock] ELSE << >>]
    /\ storeFailed = {}
    /\ last = NoOp
    /\ tok = EmptyString
    /\ nticks = 0
    /\ ncalls = 0
    /\ handlers = NoHandlers
    /\ client = NoClient

----------------------------------------------------------------------------
(* Time passes *)

Tick(step) ==
    /\ nticks < MaxTicks
    /\ clock' = MsPlus(clock, step)
    /\ nticks' = nticks + 1
    /\ UNCHANGED <<handlers, client>>
    /\ UNCHANGED <<env, RATE_LIMIT_KV, USER_STATS_KV, last, admitted,
                   storeFailed, tok, ncalls>>

\* A throttled caller waits the retryAfter seconds it was told and comes back.
WaitRetryAfter ==
    /\ last.op = "checkRateLimit"
    /\ ~last.result.allowed
    /\ Tick(SecToMs(last.result.retryAfter))

----------------------------------------------------------------------------
(* One call of checkRateLimit, start to end *)

CallCheckRateLimit(userId, rlFail, stFail) ==
    /\ ncalls < MaxCalls
    /\ LET r == checkRateLimit(userId, RATE_LIMIT_KV, USER_STATS_KV, clock,
                               rlFail, stFail)
           statsReached == r.failed = "none" /\ r.result.allowed
       IN  /\ RATE_LIMIT_KV' = r.rate
           /\ USER_STATS_KV' = r.stats
           /\ last' = [op |-> "checkRateLimit", userId |-> userId, at |-> clock,
                       failed |-> r.failed,
                       statsFailed |-> statsReached /\ stFail # "none",
                       result |-> r.result,
                       prev |-> IF last.op = "checkRateLimit" /\ last.userId = userId
                                THEN [op |-> "checkRateLimit", at |-> last.at,
                                      result |-> last.result]
                                ELSE NoOp]
           /\ admitted' = IF r.result.allowed
                          THEN [admitted EXCEPT ![userId] = Append(@, clock)]
                          ELSE admitted
           /\ storeFailed' = IF r.failed # "none" \/ (statsReached /\ stFail # "none")
                             THEN storeFailed \cup {userId}
                             ELSE storeFailed
    /\ ncalls' = ncalls + 1
    /\ UNCHANGED <<handlers, client>>
    /\ UNCHANGED <<clock, env, tok, nticks>>

LimiterSteps == {Millisecond, MsMinus(Hour, Millisecond), Hour}
UsageSteps == {Millisecond, Hour, ThirtyDays}

TickLimiter == \E step \in LimiterSteps : Tick(step)

CallLimiter ==
    \E userId \in {UserA}, rlFail \in Failures, stFail \in Failures :
        CallCheckRateLimit(userId, rlFail, stFail)

NextLimiter == TickLimiter \/ WaitRetryAfter \/ CallLimiter

SpecLimiter == InitLimiter /\ [][NextLimiter]_vars

\* the same calls on the scale of days
TickUsage == \E step \in UsageSteps : Tick(step)

NextUsage == TickUsage \/ WaitRetryAfter \/ CallLimiter

SpecUsage == InitLimiter /\ [][NextUsage]_vars

----------------------------------------------------------------------------
(* The codec on its own: a token is signed, perhaps altered on the way, and
   verified with a secret at some later time. *)

NoToken == [issued |-> FALSE]

\* the ways a token string is altered between issue and use
FlipBit(mac) == [t |-> "mac", key |-> mac.key, data |-> mac.data, flipped |-> TRUE]
OtherPayload(payload) ==
    [payload EXCEPT !.userId = UserB, !.exp = @ + TokenTtlSeconds]
Junk == <<[t |-> "text", s |-> "x"]>>
AttackerKey == "k-attacker"

Alter(kind, token) ==
    LET parts == Split(token)
        h == parts[1]
        p == parts[2]
        sig == parts[3]
        mac == sig[1].text[1]
        payload == p[1].text[1].value
        join(a, b, c) == a \o <<Dot>> \o b \o <<Dot>> \o c
    IN  CASE kind = "signature" -> join(h, p, Btoa(FromCharCode(FlipBit(mac))))
          [] kind = "payload" -> join(h, Btoa(JsonStringify(OtherPayload(payload))), sig)
          [] kind = "resigned" -> signJWT(payload, JsString(AttackerKey))
          [] kind = "objectkey" -> signJWT(payload, JsString(ObjectObject))
          [] kind = "unpadded" -> join(h, p, <<[sig[1] EXCEPT !.form = "unpadded"]>>)
          [] kind = "extra" -> token \o <<Dot>> \o Junk
          [] kind = "short" -> h \o <<Dot>> \o p
          [] kind = "empty" -> join(h, EmptyString, sig)
          [] kind = "garbage" -> join(h, p, Junk)

AlterKinds == {"signature", "payload", "resigned", "objectkey", "unpadded",
               "extra", "short", "empty", "garbage"}

EmptyLog == [u \in Users |-> << >>]

InitCodec ==
    /\ clock \in StartTimes
    /\ env \in {Env(secret) : secret \in Secrets}
    /\ RATE_LIMIT_KV = EmptyKV
    /\ USER_STATS_KV = EmptyKV
    /\ admitted = EmptyLog
    /\ storeFailed = {}
    /\ last = NoOp
    /\ tok = NoToken
    /\ nticks = 0
    /\ ncalls = 0
    /\ handlers = NoHandlers
    /\ client = NoClient

\* generateAnonymousToken for a fresh identity, under the env's secret
CodecIssue(randomHex) ==
    /\ ncalls < MaxCalls
    /\ ~tok.issued
    /\ LET userId == generateAnonymousUserId(clock, randomHex)
       IN  tok' = [issued |-> TRUE,
                   token |-> generateAnonymousToken(userId, env, clock),
                   userId |-> userId, issuedAt |-> clock,
                   signedWith |-> env.JWT_SECRET.s, altered |-> "none"]
    /\ ncalls' = ncalls + 1
    /\ UNCHANGED <<handlers, client>>
    /\ UNCHANGED <<clock, env, RATE_LIMIT_KV, USER_STATS_KV, last, admitted,
                   storeFailed, nticks>>

CodecAlter(kind) ==
    /\ tok.issued
    /\ tok.altered = "none"
    /\ tok' = [tok EXCEPT !.token = Alter(kind, tok.token), !.altered = kind]
    /\ UNCHANGED <<handlers, client>>
    /\ UNCHANGED <<clock, env, RATE_LIMIT_KV, USER_STATS_KV, last, admitted,
                   storeFailed, nticks, ncalls>>

\* verifyAnonymousToken(token, secret) with a secret string
CodecVerify(secret) ==
    /\ ncalls < MaxCalls
    /\ tok.issued
    /\ last' = [op |-> "verify", tok |-> tok, secret |-> secret, at |-> clock,
                jwt |-> verifyJWT(tok.token, JsString(secret), clock),
                result |-> verifyAnonymousToken(tok.token, JsString(secret), clock)]
    /\ ncalls' = ncalls + 1
    /\ UNCHANGED <<handlers, client>>
    /\ UNCHANGED <<clock, env, RATE_LIMIT_KV, USER_STATS_KV, admitted,
                   storeFailed, tok, nticks>>

RandomHex == {"3f9c", "a07e"}
CodecSteps == {Millisecond, MsMinus(ThirtyDays, Second), ThirtyDays}

NextCodec ==
    \/ \E step \in CodecSteps : Tick(step)
    \/ \E randomHex \in RandomHex : CodecIssue(randomHex)
    \/ \E kind \in AlterKinds : CodecAlter(kind)
    \/ \E secret \in Secrets : CodecVerify(secret)

SpecCodec == InitCodec /\ [][NextCodec]_vars

----------------------------------------------------------------------------
(* The HTTP handlers *)

NoAuthorization == [present |-> FALSE]
Bearer(token) == [present |-> TRUE, scheme |-> "Bearer ", rest |-> token]
BasicAuthorization == [present |-> TRUE, scheme |-> "Basic ", rest |-> Junk]

\* authenticateUser hands the whole env to verifyAnonymousToken as the secret
authenticateUser(request, e, now) ==
    LET authHeader == request.authorization
    IN  IF ~authHeader.present \/ authHeader.scheme # "Bearer "
        THEN [success |-> FALSE, error |-> "Missing or invalid authorization header"]
        ELSE LET token == authHeader.rest
                 r == verifyAnonymousToken(token, e, now)
             IN  IF r.ok
                 THEN [success |-> TRUE, userId |-> r.payload.userId,
                       isAnonymous |-> TRUE, issuedAt |-> r.payload.iat,
                       expiresAt |-> r.payload.exp]
                 ELSE [success |-> FALSE, error |-> "Invalid or expired token"]

\* new Response(JSON.stringify(body), { status, headers })
Response(status, body) == [status |-> status, body |-> body, retryAfter |-> Null]
ErrorResponse(status, msg) == Response(status, [error |-> msg])
\* n.toString() in the Retry-After header
NumberToString(n) == [decimal |-> n]

\* the 429 response: retryAfter in the body and in the Retry-After header
TooManyRequests(retryAfter) ==
    [status |-> 429,
     body |-> [error |-> "Rate limit exceeded", retryAfter |-> retryAfter],
     retryAfter |-> NumberToString(retryAfter)]

NotReached == [called |-> FALSE]

\* what the downstream service does when called: answers with a status, or
\* the call (or reading its JSON) throws
Downstream == {"200", "500", "throws"}
DownstreamStatus(d) == IF d = "200" THEN 200 ELSE IF d = "429" THEN 429 ELSE 500

\* a wrong Unauthorized, kept for comparison: the failed attempt is recorded
UnauthorizedAndRecorded(authResult, rateKV, statsKV, now) ==
    [rate |-> rateKV,
     stats |-> KvPut(statsKV, statsKey("unauthenticated"),
                     JsonStringify(NewStats(now)), NeverExpires),
     response |-> ErrorResponse(401, authResult.error),
     auth |-> authResult, limiter |-> NotReached, downstreamCalls |-> 0]

\* if (!authResult.success) return new Response(..., { status: 401 }):
\* nothing was read or written
Unauthorized(authResult, rateKV, statsKV, now) ==
    [rate |-> rateKV, stats |-> statsKV,
     response |-> ErrorResponse(401, authResult.error),
     auth |-> authResult, limiter |-> NotReached, downstreamCalls |-> 0]

\* a wrong AfterAdmit, kept for comparison: a request that ends in 400 or 503
\* gives its quota unit back
AfterAdmitRefunded(limited, untouched, request, now, downstream) ==
    IF ~request.bodyIsJson
    THEN untouched @@ limited @@
         [response |-> ErrorResponse(400, "Invalid JSON in request body"),
          downstreamCalls |-> 0]
    ELSE IF downstream = "throws"
    THEN untouched @@ limited @@
         [response |-> ErrorResponse(503, "External service unavailable"),
          downstreamCalls |-> 1]
    ELSE limited @@
         [response |-> Response(DownstreamStatus(downstream), [processedAt |-> now]),
          downstreamCalls |-> 1]

\* the handler after checkRateLimit allowed: request.json(), then the call of
\* the external service; the stores stay as the limiter left them
AfterAdmit(limited, untouched, request, now, downstream) ==
    IF ~request.bodyIsJson
    THEN limited @@
         [response |-> ErrorResponse(400, "Invalid JSON in request body"),
          downstreamCalls |-> 0]
    ELSE IF downstream = "throws"
    THEN limited @@
         [response |-> ErrorResponse(503, "External service unavailable"),
          downstreamCalls |-> 1]
    ELSE limited @@
         [response |-> Response(DownstreamStatus(downstream), [processedAt |-> now]),
          downstreamCalls |-> 1]

handleExternalApiRequest(request, e, rateKV, statsKV, now, rlFail, stFail, downstream) ==
    LET untouched == [rate |-> rateKV, stats |-> statsKV]
        \* from the rate limit check on: the stores are as the limiter left them
        Counted(authResult, rl) ==
            LET limited == [rate |-> rl.rate, stats |-> rl.stats, auth |-> authResult,
                            limiter |-> [called |-> TRUE, failed |-> rl.failed,
                                         result |-> rl.result]]
            IN  IF ~rl.result.allowed
                THEN limited @@
                     [response |-> TooManyRequests(rl.result.retryAfter),
                      downstreamCalls |-> 0]
                ELSE AfterAdmit(limited, untouched, request, now, downstream)
        \* from the authentication result on
        Authenticated(authResult) ==
            IF ~authResult.success
            THEN Unauthorized(authResult, rateKV, statsKV, now)
            ELSE Counted(authResult,
                         checkRateLimit(authResult.userId, rateKV, statsKV, now,
                                        rlFail, stFail))
    IN  IF request.method # "POST"
        THEN untouched @@ [response |-> ErrorResponse(405, "Method not allowed"),
                           auth |-> NotReached, limiter |-> NotReached,
                           downstreamCalls |-> 0]
        ELSE Authenticated(authenticateUser(request, e, now))

\* a wrong handleTokenRequest, kept for comparison: the method is not looked at
handleTokenRequestAnyMethod(request, e, statsKV, now, randomHex, stFail) ==
    LET anonymousUserId == generateAnonymousUserId(now, randomHex)
        token == generateAnonymousToken(anonymousUserId, e, now)
    IN  [stats |-> initializeUserStats(anonymousUserId, statsKV, now, stFail),
         issued |-> TRUE,
         response |-> Response(200,
             [token |-> token, userId |-> anonymousUserId,
              expiresAt |-> MsPlus(now, SecToMs(30 * 24 * 60 * 60)),
              rateLimit |-> [maxRequests |-> 100, windowMs |-> SecToMs(60 * 60)]])]

handleTokenRequest(request, e, statsKV, now, randomHex, stFail) ==
    LET anonymousUserId == generateAnonymousUserId(now, randomHex)
        token == generateAnonymousToken(anonymousUserId, e, now)
    IN  IF request.method # "POST"
        THEN [stats |-> statsKV, issued |-> FALSE,
              response |-> ErrorResponse(405, "Method not allowed")]
        ELSE IF StatsFailureEscapes(stFail)
        THEN [stats |-> statsKV, issued |-> FALSE,
              response |-> ErrorResponse(500, "Token generation failed")]
        ELSE [stats |-> initializeUserStats(anonymousUserId, statsKV, now, stFail),
              issued |-> TRUE,
              response |-> Response(200,
                  [token |-> token, userId |-> anonymousUserId,
                   expiresAt |-> MsPlus(now, SecToMs(30 * 24 * 60 * 60)),
                   rateLimit |-> [maxRequests |-> 100, windowMs |-> SecToMs(60 * 60)]])]

\* new Response(null, { status: 200, headers: corsHeaders })
Preflight == [status |-> 200, body |-> Null, retryAfter |-> Null]
NotFound == [status |-> 404, body |-> [text |-> "Not Found"], retryAfter |-> Null]

\* fetch, for a request that is not for /api/external-service: the CORS
\* preflight is answered before the path is looked at
fetch(request, e, statsKV, now, randomHex, stFail) ==
    IF request.method = "OPTIONS"
    THEN [stats |-> statsKV, issued |-> FALSE, response |-> Preflight]
    ELSE IF request.path = "/api/token"
    THEN handleTokenRequest(request, e, statsKV, now, randomHex, stFail)
    ELSE [stats |-> statsKV, issued |-> FALSE, response |-> NotFound]

----------------------------------------------------------------------------
(* The Worker as a whole: requests arrive one at a time *)

Methods == {"POST", "GET"}

Init ==
    /\ clock \in StartTimes
    /\ env = Env("s3cr3t-A")
    /\ \E k \in {0, 100} :
          LET was == AfterCalls(k, UserA, clock)
          IN  /\ RATE_LIMIT_KV = was.rate
              /\ USER_STATS_KV = was.stats
              /\ admitted = [u \in Users |->
                                IF u = UserA THEN [i \in 1..k |-> clock] ELSE << >>]
    /\ storeFailed = {}
    /\ last = NoOp
    /\ tok = NoToken
    /\ nticks = 0
    /\ ncalls = 0
    /\ handlers = NoHandlers
    /\ client = NoClient

LogOf(userId) == IF userId \in DOMAIN admitted THEN admitted[userId] ELSE << >>

\* POST (or another method) /api/token
FetchToken(method, randomHex, stFail) ==
    /\ ncalls < MaxRequests
    /\ \E request \in {[method |-> method, path |-> "/api/token",
                         authorization |-> NoAuthorization]} :
       \E r \in {fetch(request, env, USER_STATS_KV, clock, randomHex, stFail)} :
           /\ USER_STATS_KV' = r.stats
           /\ tok' = IF r.issued
                     THEN [issued |-> TRUE, token |-> r.response.body.token,
                           userId |-> r.response.body.userId, issuedAt |-> clock,
                           signedWith |-> env.JWT_SECRET.s, altered |-> "none"]
                     ELSE tok
           /\ last' = [op |-> "fetch", request |-> request, at |-> clock,
                       response |-> r.response, auth |-> NotReached,
                       limiter |-> NotReached, downstreamCalls |-> 0]
    /\ ncalls' = ncalls + 1
    /\ UNCHANGED <<handlers, client>>
    /\ UNCHANGED <<clock, env, RATE_LIMIT_KV, admitted, storeFailed, nticks>>

\* the tokens a caller may present: the one it was issued, that one altered,
\* and one made up for UserA under a key of the caller's choosing
ForgedFor(userId, key, now) ==
    signJWT([userId |-> userId, iat |-> Floor1000(now),
             exp |-> Floor1000(now) + TokenTtlSeconds, type |-> "anonymous"],
            JsString(key))

Presentable ==
    (IF tok.issued
     THEN {tok.token} \cup {Alter(kind, tok.token) : kind \in AlterKinds}
     ELSE {})
    \cup {ForgedFor(UserA, ObjectObject, clock)}

Authorizations ==
    {NoAuthorization, BasicAuthorization} \cup {Bearer(token) : token \in Presentable}

\* a request to /api/external-service, start to end
FetchExternal(method, authorization, bodyIsJson, rlFail, stFail, downstream) ==
    /\ ncalls < MaxRequests
    /\ \E request \in {[method |-> method, path |-> "/api/external-service",
                         authorization |-> authorization, bodyIsJson |-> bodyIsJson]} :
       \E r \in {handleExternalApiRequest(request, env, RATE_LIMIT_KV, USER_STATS_KV,
                                          clock, rlFail, stFail, downstream)} :
          LET userId == r.auth.userId
              allowed == r.limiter.called /\ r.limiter.result.allowed
              statsReached == allowed /\ r.limiter.failed = "none"
          IN  /\ RATE_LIMIT_KV' = r.rate
              /\ USER_STATS_KV' = r.stats
              /\ last' = [op |-> "fetch", request |-> request, at |-> clock,
                          response |-> r.response, auth |-> r.auth,
                          limiter |-> r.limiter,
                          downstreamCalls |-> r.downstreamCalls]
              /\ admitted' = IF allowed
                             THEN [u \in DOMAIN admitted \cup {userId} |->
                                      IF u = userId THEN Append(LogOf(u), clock)
                                      ELSE admitted[u]]
                             ELSE admitted
              /\ storeFailed' =
                    IF r.limiter.called
                       /\ (r.limiter.failed # "none" \/ (statsReached /\ stFail # "none"))
                    THEN storeFailed \cup {userId}
                    ELSE storeFailed
    /\ ncalls' = ncalls + 1
    /\ UNCHANGED <<handlers, client>>
    /\ UNCHANGED <<clock, env, tok, nticks>>

WorkerSteps == {Hour, ThirtyDays}

\* the inputs a request gets to use: those of the stages after a rejection
\* are never read, and are left at their first value
RejectedEarly(method, authorization) ==
    \/ method # "POST"
    \/ ~authenticateUser([authorization |-> authorization], env, clock).success

Next ==
    \/ \E step \in WorkerSteps : Tick(step)
    \/ \E method \in Methods, randomHex \in {"3f9c"}, stFail \in {"none", "put"} :
          /\ (method # "POST" => stFail = "none")
          /\ FetchToken(method, randomHex, stFail)
    \/ \E method \in Methods, authorization \in Authorizations,
          bodyIsJson \in BOOLEAN, rlFail \in Failures,
          stFail \in {"none", "put"}, downstream \in Downstream :
          /\ RejectedEarly(method, authorization) =>
                /\ bodyIsJson /\ rlFail = "none"
                /\ stFail = "none" /\ downstream = "200"
          /\ FetchExternal(method, authorization, bodyIsJson, rlFail, stFail,
                           downstream)

Spec == Init /\ [][Next]_vars

----------------------------------------------------------------------------
(* What the stores hold, read back for the properties below *)

\* the array under rate_limit:<userId>, or the empty one
StoredRequests(userId, now) ==
    LET got == KvGet(RATE_LIMIT_KV, rateLimitKey(userId), now)
    IN  IF got.found THEN got.value[1].value.array ELSE << >>

HasStats(userId) == statsKey(userId) \in DOMAIN USER_STATS_KV
StoredStats(userId) == USER_STATS_KV[statsKey(userId)].value[1].value

RECURSIVE SumOver(_, _)
SumOver(f, S) ==
    IF S = {} THEN 0
    ELSE LET d == CHOOSE x \in S : TRUE IN f[d] + SumOver(f, S \ {d})
SumDaily(daily) == SumOver(daily, DOMAIN daily)

\* how many of the times in log lie in the hour that ends at now
CountWithinHour(log, now) ==
    Cardinality({i \in 1..Len(log) :
                    MsLeq(log[i], now) /\ MsLess(now, MsPlus(log[i], Hour))})

\* the admits of userId before the call that `last` records
AdmittedBefore(userId) ==
    IF last.result.allowed
    THEN SubSeq(admitted[userId], 1, Len(admitted[userId]) - 1)
    ELSE admitted[userId]

IsCall == last.op = "checkRateLimit"

----------------------------------------------------------------------------
(* Codec properties, on SpecCodec *)

IsVerify == last.op = "verify"
\* the exp a credential issued at issuedAt carries, in seconds
IssuedIat(t) == t.issuedAt.s
IssuedExp(t) == t.issuedAt.s + 2592000

(* C2: a token signed with secret s for {userId, iat, exp, type: anonymous},
   verified with the same s at a time not later than exp, yields a payload
   with that userId, iat and exp. *)
C2_RoundTrip ==
    (IsVerify /\ last.tok.altered = "none" /\ last.secret = last.tok.signedWith
        /\ MsLeq(last.at, SecToMs(IssuedExp(last.tok))))
    => /\ last.result.ok
       /\ last.result.payload.userId = last.tok.userId
       /\ last.result.payload.iat = IssuedIat(last.tok)
       /\ last.result.payload.exp = IssuedExp(last.tok)
       /\ last.result.payload.type = "anonymous"

\* verified at the very millisecond of exp
C2_Witness ==
    /\ IsVerify /\ last.tok.altered = "none" /\ last.secret = last.tok.signedWith
    /\ last.at = SecToMs(IssuedExp(last.tok))
    /\ last.result.ok
    /\ last.result.payload.userId = last.tok.userId

(* C4: a credential issued at time t is rejected at every time later than
   its exp (t + 30 days), whatever the secret, and is not rejected at any
   time up to exp when verified with the secret it was signed with. *)
C4_Expiry ==
    (IsVerify /\ last.tok.altered = "none") =>
        /\ MsLess(SecToMs(IssuedExp(last.tok)), last.at) =>
              (~last.result.ok /\ ~last.jwt.ok)
        /\ (MsLess(SecToMs(IssuedExp(last.tok)), last.at)
              /\ last.secret = last.tok.signedWith) =>
              last.jwt.error = "Token verification failed: Token expired"
        /\ (MsLeq(last.at, SecToMs(IssuedExp(last.tok)))
              /\ last.secret = last.tok.signedWith) => last.jwt.ok
        /\ MsLeq(SecToMs(IssuedExp(last.tok)), MsPlus(last.tok.issuedAt, ThirtyDays))

\* one millisecond after exp the credential is refused as expired
C4_Witness ==
    /\ IsVerify /\ last.tok.altered = "none" /\ last.secret = last.tok.signedWith
    /\ last.at = MsPlus(SecToMs(IssuedExp(last.tok)), Millisecond)
    /\ ~last.result.ok
    /\ last.jwt.error = "Token verification failed: Token expired"

(* C5: verification fails unless the token splits on "." into exactly three
   non-empty segments. *)
C5_ExactlyThreeSegments ==
    (IsVerify /\ last.jwt.ok) =>
        LET parts == Split(last.tok.token)
        IN  /\ Len(parts) = 3
            /\ \A i \in 1..3 : parts[i] # EmptyString

----------------------------------------------------------------------------
(* Gateway properties, on Spec *)

IsExternal == last.op = "fetch" /\ last.request.path = "/api/external-service"

\* the request presents, untouched, the token POST /api/token returned
PresentsIssuedToken ==
    /\ IsExternal
    /\ last.request.method = "POST"
    /\ tok.issued
    /\ last.request.authorization = Bearer(tok.token)

\* the admits of the token's identity before the request that `last` records
IssuedAdmitsBefore ==
    IF last.limiter.called /\ last.limiter.result.allowed
    THEN SubSeq(LogOf(tok.userId), 1, Len(LogOf(tok.userId)) - 1)
    ELSE LogOf(tok.userId)

(* C1: a token returned by POST /api/token and presented as a Bearer token
   to POST /api/external-service within its lifetime, with no store failure,
   is not answered 401 or 429 while fewer than 100 of its calls lie within
   the hour, and is answered 429 with a Retry-After header otherwise. *)
C1_EndToEnd ==
    (PresentsIssuedToken /\ tok.userId \notin storeFailed
        /\ MsLeq(last.at, SecToMs(IssuedExp(tok))))
    => IF CountWithinHour(IssuedAdmitsBefore, last.at) < 100
       THEN last.response.status \notin {401, 429}
       ELSE /\ last.response.status = 429
            /\ last.response.retryAfter # Null

\* the MAC of the token's "header.payload" under the server's JWT_SECRET
SignedUnderServerSecret(token) ==
    LET parts == Split(token)
    IN  /\ Len(parts) = 3
        /\ Atob(parts[3]).ok
        /\ Atob(parts[3]).value =
              <<HmacSign(env.JWT_SECRET.s, parts[1] \o <<Dot>> \o parts[2])>>

(* C3: a request is treated as Verified only if its token's signature is the
   MAC of "header.payload" under the server-held JWT_SECRET; every other
   token is answered 401. *)
C3_VerifiedOnlyUnderSecret ==
    (IsExternal /\ last.request.method = "POST"
        /\ last.request.authorization.present
        /\ last.request.authorization.scheme = "Bearer ")
    => /\ last.auth.success =>
              SignedUnderServerSecret(last.request.authorization.rest)
       /\ ~SignedUnderServerSecret(last.request.authorization.rest) =>
              last.response.status = 401

----------------------------------------------------------------------------
(* C6: with no store failure and calls handled one at a time, checkRateLimit
   admits exactly when fewer than 100 earlier admits of the identity lie
   within the last 3,600,000 ms; a denial carries retryAfter > 0; and no
   hour ending at an admit holds more than 100 admits. *)
C6_SequentialLimit ==
    (IsCall /\ last.userId \notin storeFailed) =>
        LET u == last.userId
            log == admitted[u]
        IN  /\ last.result.allowed <=>
                   CountWithinHour(AdmittedBefore(u), last.at) < 100
            /\ (~last.result.allowed => last.result.retryAfter > 0)
            /\ (last.result.allowed => CountWithinHour(log, last.at) <= 100)

\* the 101st call within the hour is denied
C6_Witness ==
    /\ IsCall /\ last.userId \notin storeFailed
    /\ ~last.result.allowed
    /\ Len(admitted[last.userId]) = 100
    /\ ncalls > 0

\* calls are admitted again once the window has passed
C6_WitnessAgain ==
    /\ IsCall /\ last.userId \notin storeFailed
    /\ last.result.allowed
    /\ Len(admitted[last.userId]) > 100

(* C7: a denial's retryAfter is ceil((oldest in-window timestamp + windowMs
   - now) / 1000), an integer from 1 to 3600, and the identity's next call,
   made at least retryAfter seconds after the denial and meeting no store
   failure, is admitted. *)
C7_RetryHint ==
    /\ (IsCall /\ ~last.result.allowed) =>
          LET R == last.result.retryAfter
              kept == {t \in {StoredRequests(last.userId, last.at)[i] :
                                 i \in 1..Len(StoredRequests(last.userId, last.at))} :
                          MsLess(last.at, MsPlus(t, Hour))}
              oldest == CHOOSE t \in kept : \A x \in kept : MsLeq(t, x)
              wait == MsMinus(MsPlus(oldest, Hour), last.at)
          IN  /\ R \in 1..3600
              /\ MsLeq(wait, SecToMs(R))
              /\ MsLess(SecToMs(R - 1), wait)
    /\ (IsCall /\ last.failed = "none" /\ last.prev.op = "checkRateLimit"
          /\ ~last.prev.result.allowed
          /\ MsLeq(MsPlus(last.prev.at, SecToMs(last.prev.result.retryAfter)), last.at))
       => last.result.allowed

\* a denial one millisecond before the window opens says "1 second", and the
\* call one second later is admitted
C7_Witness ==
    /\ IsCall /\ last.failed = "none" /\ last.result.allowed
    /\ last.prev.op = "checkRateLimit"
    /\ ~last.prev.result.allowed
    /\ last.prev.result.retryAfter = 1
    /\ last.at = MsPlus(last.prev.at, Second)

(* C8: when the get or the put of the rate-limit store fails during
   checkRateLimit, the call is allowed, whatever the window holds. *)
C8_FailOpen ==
    (IsCall /\ last.failed # "none") => last.result.allowed

\* the store fails for an identity that has used up its window
C8_Witness ==
    /\ IsCall /\ last.failed = "get" /\ last.result.allowed
    /\ CountWithinHour(StoredRequests(last.userId, last.at), last.at) = 100

\* the UTC dates on which the identity was admitted
AdmitDates(userId) == {ISODate(admitted[userId][i]) : i \in 1..Len(admitted[userId])}

UsageCountsHold(userId) ==
    /\ HasStats(userId)
    /\ StoredStats(userId).totalRequests = Len(admitted[userId])
    /\ Cardinality(DOMAIN StoredStats(userId).dailyRequests) = 2
    /\ SumDaily(StoredStats(userId).dailyRequests) = Len(admitted[userId])

(* C9 as claimed: after N admits with no store failure, spread across any
   two distinct UTC dates, totalRequests = N and dailyRequests has exactly
   two entries that sum to N. *)
C9_AnyTwoDates ==
    \A u \in {UserA} :
        (u \notin storeFailed /\ Cardinality(AdmitDates(u)) = 2)
            => UsageCountsHold(u)

\* the earlier date is not yet thirty days old at the last admit
EarlierDateRetained(userId) ==
    LET log == admitted[userId]
        first == CHOOSE d \in AdmitDates(userId) : \A e \in AdmitDates(userId) : d <= e
    IN  MsLeq(log[Len(log)], MsPlus(DateOf(first), ThirtyDays))

(* C9 amended: the same, for two dates of which the earlier one is not yet
   thirty days old (its midnight is not before the last admit minus 30
   days) when the last request is admitted. *)
C9_TwoRetainedDates ==
    \A u \in {UserA} :
        (u \notin storeFailed /\ Cardinality(AdmitDates(u)) = 2
            /\ EarlierDateRetained(u))
            => UsageCountsHold(u)

C9_Witness ==
    /\ UserA \notin storeFailed
    /\ Cardinality(AdmitDates(UserA)) = 2
    /\ EarlierDateRetained(UserA)
    /\ IsCall /\ last.result.allowed
    /\ Len(admitted[UserA]) > 100
    /\ UsageCountsHold(UserA)

(* C10: after an updateUserStats that went through at time now, the stored
   dailyRequests has no date older than now - 30 days, and has the current
   date with a count of at least 1. *)
C10_Pruning ==
    (IsCall /\ last.result.allowed /\ last.failed = "none" /\ ~last.statsFailed) =>
        LET daily == StoredStats(last.userId).dailyRequests
            today == ISODate(last.at)
        IN  /\ HasStats(last.userId)
            /\ \A d \in DOMAIN daily : ~MsLess(MsPlus(DateOf(d), ThirtyDays), last.at)
            /\ today \in DOMAIN daily
            /\ daily[today] >= 1

\* an update that dropped the entry of a date more than thirty days back
C10_Witness ==
    /\ IsCall /\ last.result.allowed /\ last.failed = "none" /\ ~last.statsFailed
    /\ StoredStats(last.userId).totalRequests
           > SumDaily(StoredStats(last.userId).dailyRequests)
    /\ DOMAIN StoredStats(last.userId).dailyRequests = {ISODate(last.at)}

----------------------------------------------------------------------------
(* Usage record around one call of checkRateLimit, on SpecLimiter *)

\* the usage record held under user_stats:<userId> in a store, if any
StatsIn(statsKV, userId) ==
    IF statsKey(userId) \in DOMAIN statsKV
    THEN statsKV[statsKey(userId)].value[1].value
    ELSE NewStats(Null)

(* C11: every call of checkRateLimit that returns allowed: true, the usage
   store working, raises the identity's totalRequests by one and sets
   lastRequestAt to the time of the call. *)
C11_CountedOnEveryAllow ==
    [][\A rlFail \in Failures :
          (CallCheckRateLimit(UserA, rlFail, "none") /\ last'.result.allowed)
          => /\ StatsIn(USER_STATS_KV', UserA).totalRequests
                   = StatsIn(USER_STATS_KV, UserA).totalRequests + 1
             /\ StatsIn(USER_STATS_KV', UserA).lastRequestAt = clock]_vars

----------------------------------------------------------------------------
(* Failures of the usage store, on Spec *)

\* the timestamps held under rate_limit:<userId> in a store
RequestsIn(rateKV, userId) ==
    IF rateLimitKey(userId) \in DOMAIN rateKV
    THEN rateKV[rateLimitKey(userId)].value[1].value.array
    ELSE << >>

\* a request that got past authentication, with the usage store failing
UsageStoreFails(downstream) ==
    /\ last'.op = "fetch" /\ last'.request.path = "/api/external-service"
    /\ last'.limiter.called
    /\ FetchExternal("POST", last'.request.authorization, last'.request.bodyIsJson,
                     "none", "put", downstream)

(* C12: a failing usage store changes neither the limiter's decision (it is
   the one made with the store working, and an admitted request's timestamp
   is in the rate window record) nor the response, and a token request whose
   initializeUserStats fails is still answered 200 with the token. *)
C12_UsageFailureSwallowed ==
    [][/\ FetchToken("POST", "3f9c", "put") =>
             /\ last'.response.status = 200
             /\ tok'.issued /\ last'.response.body.token = tok'.token
       /\ \A downstream \in Downstream :
             UsageStoreFails(downstream) =>
                LET userId == last'.auth.userId
                    working == handleExternalApiRequest(last'.request, env,
                                   RATE_LIMIT_KV, USER_STATS_KV, clock,
                                   "none", "none", downstream)
                IN  /\ last'.limiter.result = working.limiter.result
                    /\ last'.response = working.response
                    /\ RATE_LIMIT_KV' = working.rate
                    /\ last'.limiter.result.allowed =>
                          /\ Len(RequestsIn(RATE_LIMIT_KV', userId)) > 0
                          /\ RequestsIn(RATE_LIMIT_KV', userId)
                                [Len(RequestsIn(RATE_LIMIT_KV', userId))] = clock
                          /\ USER_STATS_KV' = USER_STATS_KV]_vars

\* an admitted request whose usage update was lost, and a token issued
\* although its usage record could not be written
C12_Witness ==
    /\ IsExternal /\ last.limiter.called /\ last.limiter.failed = "none"
    /\ last.limiter.result.allowed /\ last.response.status = 200
    /\ StatsIn(USER_STATS_KV, last.auth.userId).lastRequestAt # last.at
    /\ last.at \in {RequestsIn(RATE_LIMIT_KV, last.auth.userId)[i] :
                       i \in 1..Len(RequestsIn(RATE_LIMIT_KV, last.auth.userId))}
    /\ tok.issued
    /\ statsKey(tok.userId) \notin DOMAIN USER_STATS_KV

----------------------------------------------------------------------------
(* handleExternalApiRequest one await at a time.  An invocation runs from
   one await to the next without interruption; between awaits the other
   invocations run and the clock moves.  Every awaited operation resolves,
   rejects, or never settles. *)

Handlers == 1..MaxInFlight
Outcomes == {"ok", "throws", "never"}

InFlight(h) == handlers[h].pc \notin {"idle", "done"}

\* the invocation as fetch hands it to handleExternalApiRequest
Arrived(request) ==
    [pc |-> "auth", request |-> request, trace |-> <<"received">>,
     auth |-> NotReached, limiter |-> NotReached,
     now |-> Null, requests |-> << >>, statsNow |-> Null, stats |-> Null,
     downstreamCalls |-> 0, response |-> Null]

\* return new Response(...): the invocation ends and its locals are gone
Respond(hr, stage, response) ==
    [hr EXCEPT !.pc = "done", !.response = response,
               !.trace = Append(@, stage),
               !.now = Null, !.requests = << >>,
               !.statsNow = Null, !.stats = Null]

\* the awaited promise never settles: the invocation stays where it is
Pending(hr) == [hr EXCEPT !.pc = "pending"]

\* checkRateLimit returns { allowed: true }, its locals are gone: on to
\* request.json()
Allowed(hr, failed) ==
    [hr EXCEPT !.pc = "body",
               !.now = Null, !.requests = << >>,
               !.statsNow = Null, !.stats = Null,
               !.limiter = [called |-> TRUE, failed |-> failed,
                            result |-> IF failed = "none"
                                       THEN [allowed |-> TRUE] ELSE FailOpen],
               !.trace = Append(@, "admitted")]

Admit(hr) ==
    admitted' = [u \in DOMAIN admitted \cup {hr.auth.userId} |->
                    IF u = hr.auth.userId THEN Append(LogOf(u), hr.now)
                    ELSE admitted[u]]

\* fetch routes the request; the method check of the handler
Receive(h, request) ==
    /\ ~InFlight(h)
    /\ ncalls < MaxStarts
    /\ handlers' = [handlers EXCEPT ![h] =
          IF request.method # "POST"
          THEN Respond(Arrived(request), "method",
                       ErrorResponse(405, "Method not allowed"))
          ELSE Arrived(request)]
    /\ ncalls' = ncalls + 1
    /\ UNCHANGED <<clock, env, RATE_LIMIT_KV, USER_STATS_KV, last, admitted,
                   storeFailed, tok, nticks, client>>

\* await authenticateUser(request, env); on success checkRateLimit starts
\* and takes its Date.now()
Authenticate(h) ==
    /\ handlers[h].pc = "auth"
    /\ \E hr \in {handlers[h]} :
       \E authResult \in {authenticateUser(hr.request, env, clock)} :
           handlers' = [handlers EXCEPT ![h] =
              IF ~authResult.success
              THEN Respond([hr EXCEPT !.auth = authResult], "rejected",
                           ErrorResponse(401, authResult.error))
              ELSE [hr EXCEPT !.pc = "rate_get", !.auth = authResult,
                              !.now = clock,
                              !.trace = Append(@, "verified")]]
    /\ UNCHANGED <<clock, env, RATE_LIMIT_KV, USER_STATS_KV, last, admitted,
                   storeFailed, tok, nticks, ncalls, client>>

\* await env.RATE_LIMIT_KV.get(rateLimitKey), the filter and the limit check
RateGet(h, outcome) ==
    /\ handlers[h].pc = "rate_get"
    /\ \E hr \in {handlers[h]} :
       \E rateData \in {KvGet(RATE_LIMIT_KV, rateLimitKey(hr.auth.userId), clock)} :
       \E stored \in {IF Truthy(rateData)
                      THEN JsonParse(rateData.value).value.array
                      ELSE << >>} :
       \E requests \in {FilterWindow(stored, hr.now)} :
           /\ handlers' = [handlers EXCEPT ![h] =
                 IF outcome = "never" THEN Pending(hr)
                 ELSE IF outcome = "throws" THEN Allowed(hr, "get")
                 ELSE IF OverLimit(requests)
                 THEN Respond([hr EXCEPT !.limiter =
                                  [called |-> TRUE, failed |-> "none",
                                   result |-> [allowed |-> FALSE,
                                               retryAfter |-> RetryAfter(requests, hr.now)]]],
                              "throttled",
                              TooManyRequests(RetryAfter(requests, hr.now)))
                 ELSE [hr EXCEPT !.pc = "rate_put",
                                 !.requests = Append(requests, hr.now)]]
           /\ IF outcome = "throws" THEN Admit(hr) ELSE UNCHANGED admitted
    /\ UNCHANGED <<clock, env, RATE_LIMIT_KV, USER_STATS_KV, last,
                   storeFailed, tok, nticks, ncalls, client>>

\* await env.RATE_LIMIT_KV.put(rateLimitKey, JSON.stringify(requests), ttl);
\* then updateUserStats starts and takes its own Date.now()
RatePut(h, outcome) ==
    /\ handlers[h].pc = "rate_put"
    /\ \E hr \in {handlers[h]} :
           /\ handlers' = [handlers EXCEPT ![h] =
                 IF outcome = "never" THEN Pending(hr)
                 ELSE IF outcome = "throws" THEN Allowed(hr, "put")
                 ELSE [hr EXCEPT !.pc = "stats_get", !.statsNow = clock]]
           /\ RATE_LIMIT_KV' =
                 IF outcome = "ok"
                 THEN KvPut(RATE_LIMIT_KV, rateLimitKey(hr.auth.userId),
                            JsonStringify([array |-> hr.requests]),
                            ExpirationTtl(clock, Ceil1000(windowMs)))
                 ELSE RATE_LIMIT_KV
           /\ IF outcome = "throws" THEN Admit(hr) ELSE UNCHANGED admitted
    /\ UNCHANGED <<clock, env, USER_STATS_KV, last,
                   storeFailed, tok, nticks, ncalls, client>>

\* await env.USER_STATS_KV.get(statsKey)
StatsGet(h, outcome) ==
    /\ handlers[h].pc = "stats_get"
    /\ \E hr \in {handlers[h]} :
       \E existingStats \in {KvGet(USER_STATS_KV, statsKey(hr.auth.userId), clock)} :
       \E stats \in {IF Truthy(existingStats)
                     THEN JsonParse(existingStats.value).value
                     ELSE NewStats(hr.statsNow)} :
           /\ handlers' = [handlers EXCEPT ![h] =
                 IF outcome = "never" THEN Pending(hr)
                 ELSE IF outcome = "throws" THEN Allowed(hr, "none")
                 ELSE [hr EXCEPT !.pc = "stats_put", !.stats = stats]]
           /\ IF outcome = "throws" THEN Admit(hr) ELSE UNCHANGED admitted
    /\ UNCHANGED <<clock, env, RATE_LIMIT_KV, USER_STATS_KV, last,
                   storeFailed, tok, nticks, ncalls, client>>

\* await env.USER_STATS_KV.put(statsKey, JSON.stringify(stats)); then
\* checkRateLimit returns { allowed: true }
StatsPut(h, outcome) ==
    /\ handlers[h].pc = "stats_put"
    /\ \E hr \in {handlers[h]} :
           /\ handlers' = [handlers EXCEPT ![h] =
                 IF outcome = "never" THEN Pending(hr) ELSE Allowed(hr, "none")]
           /\ USER_STATS_KV' =
                 IF outcome = "ok"
                 THEN KvPut(USER_STATS_KV, statsKey(hr.auth.userId),
                            JsonStringify(UpdatedStats(hr.stats, hr.statsNow)),
                            NeverExpires)
                 ELSE USER_STATS_KV
           /\ IF outcome = "never" THEN UNCHANGED admitted ELSE Admit(hr)
    /\ UNCHANGED <<clock, env, RATE_LIMIT_KV, last,
                   storeFailed, tok, nticks, ncalls, client>>

\* a wrong ReadBody, kept for comparison: the downstream call is issued
\* before the body is found unparsable
ReadBodyAfterCall(h) ==
    /\ handlers[h].pc = "body"
    /\ \E hr \in {handlers[h]} :
           handlers' = [handlers EXCEPT ![h] =
              IF ~hr.request.bodyIsJson
              THEN Respond([hr EXCEPT !.downstreamCalls = @ + 1], "body",
                           ErrorResponse(400, "Invalid JSON in request body"))
              ELSE [hr EXCEPT !.pc = "downstream",
                              !.downstreamCalls = @ + 1,
                              !.trace = Append(@, "downstream")]]
    /\ UNCHANGED <<clock, env, RATE_LIMIT_KV, USER_STATS_KV, last, admitted,
                   storeFailed, tok, nticks, ncalls, client>>

\* await request.json(); then fetch(env.EXTERNAL_API_URL, ...) is issued
ReadBody(h) ==
    /\ handlers[h].pc = "body"
    /\ \E hr \in {handlers[h]} :
           handlers' = [handlers EXCEPT ![h] =
              IF ~hr.request.bodyIsJson
              THEN Respond(hr, "body",
                           ErrorResponse(400, "Invalid JSON in request body"))
              ELSE [hr EXCEPT !.pc = "downstream",
                              !.downstreamCalls = @ + 1,
                              !.trace = Append(@, "downstream")]]
    /\ UNCHANGED <<clock, env, RATE_LIMIT_KV, USER_STATS_KV, last, admitted,
                   storeFailed, tok, nticks, ncalls, client>>

\* the downstream call settles: its response is passed on, or the catch
\* block answers 503
DownstreamSettles(h, downstream) ==
    /\ handlers[h].pc = "downstream"
    /\ \E hr \in {handlers[h]} :
           handlers' = [handlers EXCEPT ![h] =
              IF downstream = "never" THEN Pending(hr)
              ELSE IF downstream = "throws"
              THEN Respond(hr, "unavailable",
                           ErrorResponse(503, "External service unavailable"))
              ELSE Respond(hr, "proxied",
                           Response(DownstreamStatus(downstream),
                                    [processedAt |-> clock]))]
    /\ UNCHANGED <<clock, env, RATE_LIMIT_KV, USER_STATS_KV, last, admitted,
                   storeFailed, tok, nticks, ncalls, client>>

----------------------------------------------------------------------------
(* One request after the other, every awaited operation free to resolve,
   reject or never settle *)

\* the downstream service may also answer with a status of its own choosing
Settles == Downstream \cup {"429", "never"}

\* the awaits of checkRateLimit, of request.json() and of the downstream call
Metered(h) ==
    \/ \E outcome \in Outcomes : RateGet(h, outcome)
    \/ \E outcome \in Outcomes : RatePut(h, outcome)
    \/ \E outcome \in Outcomes : StatsGet(h, outcome)
    \/ \E outcome \in Outcomes : StatsPut(h, outcome)
    \/ ReadBody(h)
    \/ \E downstream \in Settles : DownstreamSettles(h, downstream)

Continue(h) == Authenticate(h) \/ Metered(h)

Arrival(h) ==
    \E method \in Methods, authorization \in Authorizations, bodyIsJson \in BOOLEAN :
        /\ ncalls < MaxRequests
        /\ (method # "POST" => bodyIsJson)
        /\ Receive(h, [method |-> method, path |-> "/api/external-service",
                       authorization |-> authorization, bodyIsJson |-> bodyIsJson])

NextRequest ==
    \/ \E step \in WorkerSteps : Tick(step)
    \/ Arrival(1)
    \/ Continue(1)

SpecRequest == Init /\ [][NextRequest]_vars

\* the runtime resumes an invocation once the promise it awaits has settled
FairSpecRequest == SpecRequest /\ WF_vars(Metered(1))

(* C13: every authenticated request is eventually answered, also when a
   store operation or the downstream call never completes. *)
C13_AlwaysAnswered ==
    (handlers[1].pc = "rate_get") ~> (handlers[1].pc = "done")

----------------------------------------------------------------------------
(* The React client (react_api_client.js): ApiClient.request and the
   useExternalData hook, against a server that answers as the Worker does *)

\* the seconds a 429 of the Worker may carry
RetryHints == {1, 60, 3600}

\* the responses the client's fetch may resolve with
ServerAnswers(now) ==
    {Response(200, [processedAt |-> now]),
     ErrorResponse(401, "Invalid or expired token"),
     ErrorResponse(503, "External service unavailable")}
    \cup {TooManyRequests(N) : N \in RetryHints}

\* response.ok
Ok(response) == response.status \in 200..299

\* class ApiError extends Error: status, message and name, nothing else
ApiError(status, message) ==
    [name |-> "ApiError", status |-> status, message |-> message]

\* errorData.error || 'API request failed'
ErrorOf(response) ==
    IF "error" \in DOMAIN response.body
    THEN response.body.error ELSE "API request failed"

\* what an await of the client's fetch may do besides resolving: reject
NetworkFailure == [rejected |-> TRUE]
Resolved(answer) == "status" \in DOMAIN answer
FetchOutcomes(now) == ServerAnswers(now) \cup {NetworkFailure}

\* ensureToken / generateNewToken: a token is at hand ("ok": stored and not
\* expired, or newly issued), or generateNewToken throws its Error
TokenOutcomes == {"ok", "throws"}
TokenError == [name |-> "Error", message |-> "Token generation failed"]

\* a wrong request, kept for comparison: a 401 to the resent request is
\* answered by resending once more
requestAgainOn401(token, first, renewed, second) ==
    IF token = "throws"
    THEN [threw |-> TRUE, error |-> TokenError, sent |-> 0, renewals |-> 0,
          answer |-> Null]
    ELSE IF ~Resolved(first)
    THEN [threw |-> TRUE, error |-> ApiError(0, "Network error"), sent |-> 1,
          renewals |-> 0, answer |-> Null]
    ELSE IF Ok(first)
    THEN [threw |-> FALSE, value |-> first.body, sent |-> 1, renewals |-> 0,
          answer |-> first]
    ELSE IF first.status # 401
    THEN [threw |-> TRUE, error |-> ApiError(first.status, ErrorOf(first)),
          sent |-> 1, renewals |-> 0, answer |-> first]
    ELSE IF renewed = "throws"
    THEN [threw |-> TRUE, error |-> ApiError(0, "Network error"), sent |-> 1,
          renewals |-> 1, answer |-> first]
    ELSE IF ~Resolved(second)
    THEN [threw |-> TRUE, error |-> ApiError(0, "Network error"), sent |-> 2,
          renewals |-> 1, answer |-> first]
    ELSE IF Ok(second)
    THEN [threw |-> FALSE, value |-> second.body, sent |-> 2, renewals |-> 1,
          answer |-> second]
    ELSE IF second.status = 401
    THEN [threw |-> TRUE, error |-> ApiError(second.status, ErrorOf(second)),
          sent |-> 3, renewals |-> 2, answer |-> second]
    ELSE [threw |-> TRUE, error |-> ApiError(second.status, ErrorOf(second)),
          sent |-> 2, renewals |-> 1, answer |-> second]

\* ApiClient.request.  token: what ensureToken does before the try; first:
\* what the fetch of the request does; renewed: what generateNewToken does
\* after a 401; second: what the fetch of the resent request does.  sent
\* counts the requests sent to the endpoint, answer is the last response
\* received from it.
request(token, first, renewed, second) ==
    IF token = "throws"
    THEN [threw |-> TRUE, error |-> TokenError, sent |-> 0, renewals |-> 0,
          answer |-> Null]
    ELSE IF ~Resolved(first)
    THEN [threw |-> TRUE, error |-> ApiError(0, "Network error"), sent |-> 1,
          renewals |-> 0, answer |-> Null]
    ELSE IF Ok(first)
    THEN [threw |-> FALSE, value |-> first.body, sent |-> 1, renewals |-> 0,
          answer |-> first]
    ELSE IF first.status # 401
    THEN [threw |-> TRUE, error |-> ApiError(first.status, ErrorOf(first)),
          sent |-> 1, renewals |-> 0, answer |-> first]
    ELSE IF renewed = "throws"
    THEN [threw |-> TRUE, error |-> ApiError(0, "Network error"), sent |-> 1,
          renewals |-> 1, answer |-> first]
    ELSE IF ~Resolved(second)
    THEN [threw |-> TRUE, error |-> ApiError(0, "Network error"), sent |-> 2,
          renewals |-> 1, answer |-> first]
    ELSE IF Ok(second)
    THEN [threw |-> FALSE, value |-> second.body, sent |-> 2, renewals |-> 1,
          answer |-> second]
    ELSE [threw |-> TRUE, error |-> ApiError(second.status, ErrorOf(second)),
          sent |-> 2, renewals |-> 1, answer |-> second]

\* the inputs of one call of request, those it never looks at left at a
\* fixed value
Calls(now) ==
    {c \in [token : TokenOutcomes, first : FetchOutcomes(now),
            renewed : TokenOutcomes, second : FetchOutcomes(now)] :
        LET resent == c.token = "ok" /\ Resolved(c.first) /\ c.first.status = 401
        IN  /\ (~resent => c.renewed = "ok")
            /\ (~(resent /\ c.renewed = "ok") => c.second = NetworkFailure)}

\* err.retryAfter || 60
RetryAfterOf(err) ==
    IF "retryAfter" \in DOMAIN err /\ err.retryAfter # 0
    THEN err.retryAfter ELSE 60

\* fetchData of useExternalData, run in the closure that saw retryCount as
\* closure: the state of the hook after the call
fetchData(hook, closure, call, now) ==
    (LET Settle(r) ==
            IF ~r.threw
            THEN [hook EXCEPT !.data = r.value, !.error = Null, !.retryCount = 0,
                              !.timer = Null, !.answer = r.answer, !.sent = r.sent,
                              !.call = call, !.renewals = r.renewals]
            ELSE [hook EXCEPT
                     !.error = r.error, !.answer = r.answer, !.sent = r.sent,
                     !.call = call, !.renewals = r.renewals,
                     !.timer = IF "status" \in DOMAIN r.error
                                  /\ r.error.status = 429 /\ closure < 3
                               THEN [delay |-> SecToMs(RetryAfterOf(r.error)),
                                     setAt |-> now, closure |-> closure]
                               ELSE Null]
     IN  Settle(request(call.token, call.first, call.renewed, call.second)))

Mounted ==
    [mounted |-> TRUE, data |-> Null, error |-> Null, retryCount |-> 0,
     timer |-> Null, answer |-> Null, sent |-> 0, call |-> Null, renewals |-> 0]

\* useEffect(() => { fetchData(); }, [query]) on mount
UseEffect(call) ==
    /\ ~client.mounted
    /\ client' = fetchData(Mounted, 0, call, clock)
    /\ ncalls' = ncalls + 1
    /\ UNCHANGED <<clock, env, RATE_LIMIT_KV, USER_STATS_KV, last, admitted,
                   storeFailed, tok, nticks, handlers>>

\* the setTimeout callback, when its delay has passed:
\* setRetryCount(prev => prev + 1); fetchData()
TimerFires(call) ==
    /\ client.mounted
    /\ client.timer # Null
    /\ ncalls < MaxStarts
    /\ \E at \in {MsPlus(client.timer.setAt, client.timer.delay)} :
          /\ clock' = at
          /\ client' = fetchData([client EXCEPT !.retryCount = @ + 1],
                                 client.timer.closure, call, at)
    /\ ncalls' = ncalls + 1
    /\ UNCHANGED <<env, RATE_LIMIT_KV, USER_STATS_KV, last, admitted,
                   storeFailed, tok, nticks, handlers>>

NextClient ==
    \/ \E call \in Calls(clock) : UseEffect(call)
    \/ \E call \in Calls(clock) : TimerFires(call)

SpecClient == Init /\ [][NextClient]_vars

(* C14: when a call made through useExternalData is answered 429 with
   retryAfter = N, the automatic retry is scheduled N seconds later. *)
C14_RetryAfterHonoured ==
    (client.mounted /\ client.answer # Null /\ client.answer.status = 429
        /\ client.timer # Null)
    => client.timer.delay = SecToMs(client.answer.body.retryAfter)

----------------------------------------------------------------------------
(* The token endpoint on its own, under every method a browser sends *)

TokenMethods == Methods \cup {"OPTIONS"}

NextToken ==
    \/ \E step \in WorkerSteps : Tick(step)
    \/ \E method \in TokenMethods, stFail \in {"none", "put"} :
          /\ (method # "POST" => stFail = "none")
          /\ FetchToken(method, "3f9c", stFail)

SpecToken == Init /\ [][NextToken]_vars

\* a request to /api/token with another method than POST has just been served
TokenRequestNotPost ==
    /\ ncalls' # ncalls /\ last'.op = "fetch"
    /\ last'.request.path = "/api/token"
    /\ last'.request.method # "POST"

\* no credential in the response, none handed out, both stores as they were
NothingIssued ==
    /\ tok' = tok
    /\ last'.response.body = Null \/ "token" \notin DOMAIN last'.response.body
    /\ USER_STATS_KV' = USER_STATS_KV
    /\ RATE_LIMIT_KV' = RATE_LIMIT_KV

(* C15 as claimed: any request to /api/token whose method is not POST is
   answered 405, issues no credential and writes nothing to any store. *)
C15_NotPostIs405 ==
    [][TokenRequestNotPost => (last'.response.status = 405 /\ NothingIssued)]_vars

(* C15 amended: a request to /api/token whose method is neither POST nor
   OPTIONS is answered 405, an OPTIONS request is answered 200 with no body;
   neither issues a credential or writes to a store. *)
C15_NotPostIssuesNothing ==
    [][TokenRequestNotPost =>
          /\ last'.request.method # "OPTIONS" =>
                (last'.response.status = 405
                    /\ last'.response.body = [error |-> "Method not allowed"])
          /\ last'.request.method = "OPTIONS" => last'.response = Preflight
          /\ NothingIssued]_vars

\* a GET answered 405 after a token had been issued
C15_Witness ==
    /\ last.op = "fetch" /\ last.request.path = "/api/token"
    /\ last.request.method = "GET" /\ last.response.status = 405
    /\ tok.issued
    /\ statsKey(tok.userId) \in DOMAIN USER_STATS_KV

----------------------------------------------------------------------------
(* The order of the stages of one request, on SpecRequest *)

\* the complete runs of a request through handleExternalApiRequest
Runs ==
    {<<"received", "method">>,
     <<"received", "rejected">>,
     <<"received", "verified", "throttled">>,
     <<"received", "verified", "admitted", "body">>,
     <<"received", "verified", "admitted", "downstream", "unavailable">>,
     <<"received", "verified", "admitted", "downstream", "proxied">>}

IsPrefix(s, t) == Len(s) <= Len(t) /\ SubSeq(t, 1, Len(s)) = s

LastStage(hr) == hr.trace[Len(hr.trace)]

Verified(hr) == "success" \in DOMAIN hr.auth /\ hr.auth.success

\* the statuses the gateway answers with before it calls the downstream
OwnStatus(stage) ==
    IF stage = "method" THEN 405
    ELSE IF stage = "rejected" THEN 401
    ELSE IF stage = "throttled" THEN 429
    ELSE 400

StagesInOrder(hr) ==
    /\ \E run \in Runs : IsPrefix(hr.trace, run)
    /\ hr.limiter.called => Verified(hr)
    /\ hr.pc \in {"rate_get", "rate_put", "stats_get", "stats_put"} => Verified(hr)
    /\ hr.downstreamCalls \in {0, 1}
    /\ hr.downstreamCalls = 1 =>
          /\ Verified(hr)
          /\ hr.limiter.called /\ hr.limiter.result.allowed
          /\ hr.request.bodyIsJson

(* C16 as claimed: the stages come in order, only a verified request reaches
   the limiter, the downstream is called at most once and only after
   Verified and Admitted, and a response of 405, 401, 429 or 400 implies
   that no downstream call was made. *)
C16_NoCallBehind4xx ==
    \A h \in Handlers : handlers[h].pc # "idle" =>
        /\ StagesInOrder(handlers[h])
        /\ (handlers[h].pc = "done"
              /\ handlers[h].response.status \in {405, 401, 429, 400})
           => handlers[h].downstreamCalls = 0

(* C16 amended: the same order; a 405, 401, 429 or 400 that the gateway
   itself produces (method check, authentication, limiter, body) implies
   that no downstream call was made, and a response made after the
   downstream call carries the status the downstream answered with. *)
C16_StagesInOrder ==
    \A h \in Handlers : handlers[h].pc # "idle" =>
        /\ StagesInOrder(handlers[h])
        /\ (handlers[h].pc = "done"
              /\ LastStage(handlers[h]) \in {"method", "rejected", "throttled", "body"})
           => /\ handlers[h].downstreamCalls = 0
              /\ handlers[h].response.status = OwnStatus(LastStage(handlers[h]))
        /\ (handlers[h].pc = "done" /\ handlers[h].downstreamCalls = 1)
           => LastStage(handlers[h]) \in {"unavailable", "proxied"}

\* a 429 of the downstream service passed on to the caller
C16_Witness ==
    /\ handlers[1].pc = "done"
    /\ handlers[1].trace
          = <<"received", "verified", "admitted", "downstream", "proxied">>
    /\ handlers[1].response.status = 429
    /\ handlers[1].downstreamCalls = 1

----------------------------------------------------------------------------
(* Concurrent requests of one identity: up to MaxInFlight invocations at a
   time, the stores never failing, every get seeing the latest completed put *)

\* the number of calls UserA has already made when a concurrent run starts
PriorConcurrent == {98}

InitConcurrent ==
    /\ clock \in {StartOfDay}
    /\ env = Env("s3cr3t-A")
    /\ \E k \in PriorConcurrent :
          LET was == AfterCalls(k, UserA, clock)
          IN  /\ RATE_LIMIT_KV = was.rate
              /\ USER_STATS_KV = was.stats
              /\ admitted = [u \in Users |->
                                IF u = UserA THEN [i \in 1..k |-> clock] ELSE << >>]
    /\ storeFailed = {}
    /\ last = NoOp
    /\ tok = NoToken
    /\ nticks = 0
    /\ ncalls = 0
    /\ handlers = NoHandlers
    /\ client = NoClient

\* a well-formed request of UserA
RequestOfUserA ==
    [method |-> "POST", path |-> "/api/external-service",
     authorization |-> Bearer(ForgedFor(UserA, ObjectObject, clock)),
     bodyIsJson |-> TRUE]

ConcurrentSteps == {Hour}

NextConcurrent ==
    \/ \E step \in ConcurrentSteps : Tick(step)
    \/ \E h \in Handlers : Receive(h, RequestOfUserA)
    \/ \E h \in Handlers : Authenticate(h)
    \/ \E h \in Handlers : RateGet(h, "ok")
    \/ \E h \in Handlers : RatePut(h, "ok")
    \/ \E h \in Handlers : StatsGet(h, "ok")
    \/ \E h \in Handlers : StatsPut(h, "ok")
    \/ \E h \in Handlers : ReadBody(h)
    \/ \E h \in Handlers : DownstreamSettles(h, "200")

SpecConcurrent == InitConcurrent /\ [][NextConcurrent]_vars

(* C17: with at most MaxInFlight requests of one identity in flight at a
   time and the store never failing, the admitted requests with timestamps
   inside one window number at most 100 + MaxInFlight - 1. *)
C17_BoundedOvershoot ==
    CountWithinHour(admitted[UserA], clock) <= maxRequests + (MaxInFlight - 1)

\* invocation h has just completed its put of the rate window record
WroteWindow(h) ==
    handlers[h].pc = "rate_put" /\ handlers'[h].pc = "stats_get"

(* C18: under every interleaving, the record an admit writes under
   rate_limit:<identity> is the writer's whole array: at most 100 entries,
   each t with now - t < windowMs for the writer's now, the last one that
   now itself. *)
C18_WindowRecord ==
    [][\A h \in Handlers : WroteWindow(h) =>
          LET written == RequestsIn(RATE_LIMIT_KV', handlers[h].auth.userId)
              now == handlers[h].now
          IN  /\ written = handlers[h].requests
              /\ Len(written) \in 1..maxRequests
              /\ written[Len(written)] = now
              /\ \A i \in 1..Len(written) : InWindow(written[i], now)
              /\ \A i \in 1..Len(written) : MsLeq(written[i], clock)]_vars

\* a full record written while another invocation holds an older snapshot
C18_Witness ==
    \E h \in Handlers, g \in Handlers :
        /\ handlers[h].pc = "stats_get"
        /\ handlers[g].pc = "rate_put"
        /\ RequestsIn(RATE_LIMIT_KV, UserA) = handlers[h].requests
        /\ Len(handlers[h].requests) = maxRequests
        /\ handlers[g].requests # handlers[h].requests

----------------------------------------------------------------------------
(* What a rejected or a throttled request leaves behind *)

\* a request to /api/external-service has just been answered 401 by
\* authenticateUser failing
Rejected401 ==
    /\ ncalls' # ncalls /\ last'.op = "fetch"
    /\ last'.request.path = "/api/external-service"
    /\ last'.response.status = 401
    /\ last'.downstreamCalls = 0

(* C19: a request rejected with 401 performs no store operation: the rate
   window record and the usage record of every identity are unchanged. *)
C19_RejectedTouchesNothing ==
    [][Rejected401 =>
          /\ RATE_LIMIT_KV' = RATE_LIMIT_KV
          /\ USER_STATS_KV' = USER_STATS_KV
          /\ ~last'.limiter.called
          /\ "success" \in DOMAIN last'.auth /\ ~last'.auth.success]_vars

\* the token the Worker issued itself, rejected while UserA's records exist
C19_Witness ==
    /\ IsExternal /\ last.response.status = 401
    /\ PresentsIssuedToken
    /\ rateLimitKey(UserA) \in DOMAIN RATE_LIMIT_KV
    /\ statsKey(UserA) \in DOMAIN USER_STATS_KV

\* a call of checkRateLimit has just denied
Throttled ==
    /\ ncalls' # ncalls /\ last'.op = "checkRateLimit"
    /\ ~last'.result.allowed

\* the time from which the identity is admitted again, store permitting:
\* when the oldest stored timestamp leaves the window
AdmittedAgainAt(rateKV, userId) ==
    MsPlus(MathMin(RequestsIn(rateKV, userId)), windowMs)

(* C20: a call that checkRateLimit denies leaves the rate window record,
   its expiry and the usage record exactly as they were; the time at which
   the identity is admitted again is not moved, and it is the time the
   denial's retryAfter points to. *)
C20_ThrottledWritesNothing ==
    [][Throttled =>
          /\ RATE_LIMIT_KV' = RATE_LIMIT_KV
          /\ USER_STATS_KV' = USER_STATS_KV
          /\ admitted' = admitted
          /\ AdmittedAgainAt(RATE_LIMIT_KV', last'.userId)
                = AdmittedAgainAt(RATE_LIMIT_KV, last'.userId)
          /\ MsLeq(AdmittedAgainAt(RATE_LIMIT_KV', last'.userId),
                   MsPlus(clock, SecToMs(last'.result.retryAfter)))]_vars

\* a second denial in a row, later than the first, with a shorter wait
C20_Witness ==
    /\ IsCall /\ ~last.result.allowed
    /\ last.prev.op = "checkRateLimit" /\ ~last.prev.result.allowed
    /\ MsLess(last.prev.at, last.at)
    /\ last.result.retryAfter < last.prev.result.retryAfter
    /\ Len(RequestsIn(RATE_LIMIT_KV, last.userId)) = maxRequests

----------------------------------------------------------------------------
(* Quota and the stages after the limiter, on Spec *)

\* a request that the limiter admitted from the stored window and that was
\* then answered 400 or 503
AdmittedThenFailed(stFail, downstream) ==
    /\ last'.op = "fetch" /\ last'.request.path = "/api/external-service"
    /\ last'.limiter.called /\ last'.limiter.failed = "none"
    /\ last'.limiter.result.allowed
    /\ last'.response.status \in {400, 503}
    /\ FetchExternal("POST", last'.request.authorization, last'.request.bodyIsJson,
                     "none", stFail, downstream)

(* C21: a request that was verified and admitted has its timestamp appended
   to the rate window record and, the usage store working, its usage counters
   incremented, also when it is answered 400 (body is not JSON, external
   service not called) or 503 (the call of the external service failed). *)
C21_QuotaConsumedAtAdmit ==
    [][\A stFail \in {"none", "put"}, downstream \in Downstream :
          AdmittedThenFailed(stFail, downstream) =>
             LET userId == last'.auth.userId
                 today == ISODate(clock)
                 before == StatsIn(USER_STATS_KV, userId)
                 after == StatsIn(USER_STATS_KV', userId)
             IN  /\ RequestsIn(RATE_LIMIT_KV', userId)
                       = Append(FilterWindow(StoredRequests(userId, clock), clock),
                                clock)
                 /\ last'.downstreamCalls
                       = (IF last'.response.status = 400 THEN 0 ELSE 1)
                 /\ stFail = "none" =>
                       /\ after.totalRequests = before.totalRequests + 1
                       /\ after.lastRequestAt = clock
                       /\ today \in DOMAIN after.dailyRequests
                       /\ after.dailyRequests[today]
                             = (IF today \in DOMAIN before.dailyRequests
                                THEN before.dailyRequests[today] ELSE 0) + 1]_vars

\* two requests of one identity in a row were admitted and counted, and the
\* second was answered 400 without the external service being called
C21_Witness ==
    /\ IsExternal /\ last.limiter.called /\ last.limiter.failed = "none"
    /\ last.limiter.result.allowed
    /\ last.response.status = 400 /\ last.downstreamCalls = 0
    /\ RequestsIn(RATE_LIMIT_KV, last.auth.userId) = <<last.at, last.at>>
    /\ StatsIn(USER_STATS_KV, last.auth.userId).totalRequests = 2
    /\ StatsIn(USER_STATS_KV, last.auth.userId).lastRequestAt = last.at

----------------------------------------------------------------------------
(* Two identities calling checkRateLimit in turn *)

\* the number of calls each identity has already made when a run starts
PriorIsolation == {0, 99}

InitIsolation ==
    /\ clock \in {StartOfDay}
    /\ env = Env("s3cr3t-A")
    /\ \E kA \in PriorIsolation, kB \in PriorIsolation :
          /\ RATE_LIMIT_KV = AfterCalls(kA, UserA, clock).rate
                                @@ AfterCalls(kB, UserB, clock).rate
          /\ USER_STATS_KV = AfterCalls(kA, UserA, clock).stats
                                @@ AfterCalls(kB, UserB, clock).stats
          /\ admitted = [u \in Users |->
                            [i \in 1..(IF u = UserA THEN kA ELSE kB) |-> clock]]
    /\ storeFailed = {}
    /\ last = NoOp
    /\ tok = EmptyString
    /\ nticks = 0
    /\ ncalls = 0
    /\ handlers = NoHandlers
    /\ client = NoClient

CallIsolation ==
    \E userId \in Users, rlFail \in Failures, stFail \in {"none", "put"} :
        CallCheckRateLimit(userId, rlFail, stFail)

NextIsolation == TickLimiter \/ WaitRetryAfter \/ CallIsolation

SpecIsolation == InitIsolation /\ [][NextIsolation]_vars

\* a store cut down to the keys in keys
Only(kv, keys) == [k \in DOMAIN kv \cap keys |-> kv[k]]

\* a call of checkRateLimit has just run for last'.userId
Called == ncalls' # ncalls /\ last'.op = "checkRateLimit"

(* C22: a call of checkRateLimit for identity A writes no key but
   rate_limit:A and user_stats:A, and reads no other (its outcome is the one
   it has on stores holding those two keys alone); the records of every other
   identity B stay as they were, and so does the decision B would get. *)
C22_Isolation ==
    [][Called =>
          LET a == last'.userId
              own == {rateLimitKey(a), statsKey(a)}
              alone == checkRateLimit(a, Only(RATE_LIMIT_KV, own),
                                      Only(USER_STATS_KV, own), clock,
                                      last'.failed,
                                      IF last'.statsFailed THEN "put" ELSE "none")
          IN  /\ \A k \in (DOMAIN RATE_LIMIT_KV \cup DOMAIN RATE_LIMIT_KV') \ own :
                    /\ k \in DOMAIN RATE_LIMIT_KV /\ k \in DOMAIN RATE_LIMIT_KV'
                    /\ RATE_LIMIT_KV'[k] = RATE_LIMIT_KV[k]
              /\ \A k \in (DOMAIN USER_STATS_KV \cup DOMAIN USER_STATS_KV') \ own :
                    /\ k \in DOMAIN USER_STATS_KV /\ k \in DOMAIN USER_STATS_KV'
                    /\ USER_STATS_KV'[k] = USER_STATS_KV[k]
              /\ last'.result = alone.result
              /\ Only(RATE_LIMIT_KV', own) = alone.rate
              /\ Only(USER_STATS_KV', own) = alone.stats
              /\ \A b \in Users \ {a} :
                    /\ admitted'[b] = admitted[b]
                    /\ checkRateLimit(b, RATE_LIMIT_KV', USER_STATS_KV', clock,
                                      "none", "none").result
                          = checkRateLimit(b, RATE_LIMIT_KV, USER_STATS_KV, clock,
                                           "none", "none").result]_vars

\* UserB is admitted for the hundredth time in the hour while UserA, who
\* called in this run, is at its limit
C22_Witness ==
    /\ IsCall /\ last.userId = UserB /\ last.failed = "none"
    /\ last.result.allowed
    /\ Len(RequestsIn(RATE_LIMIT_KV, UserB)) = maxRequests
    /\ Len(admitted[UserA]) = maxRequests
    /\ Len(FilterWindow(RequestsIn(RATE_LIMIT_KV, UserA), clock)) = maxRequests
    /\ StatsIn(USER_STATS_KV, UserA).totalRequests = maxRequests
    /\ StatsIn(USER_STATS_KV, UserB).totalRequests = maxRequests

----------------------------------------------------------------------------
(* The usage record under concurrent requests, on SpecConcurrent *)

\* the daily counts of the stored usage record never add up to more than
\* its totalRequests
DailyWithinTotal(statsKV, userId) ==
    SumDaily(StatsIn(statsKV, userId).dailyRequests)
        <= StatsIn(statsKV, userId).totalRequests

(* C23: from one state to the next the stored totalRequests of an identity
   never decreases, however the updateUserStats calls of its requests in
   flight interleave, and the daily counts never add up to more than
   totalRequests. *)
C23_TotalMonotonic ==
    [][/\ StatsIn(USER_STATS_KV', UserA).totalRequests
             >= StatsIn(USER_STATS_KV, UserA).totalRequests
       /\ DailyWithinTotal(USER_STATS_KV', UserA)]_vars

C23_DailyWithinTotalAlways == DailyWithinTotal(USER_STATS_KV, UserA)

----------------------------------------------------------------------------
(* ApiClient.request and the 401 it answers by renewing the token, on
   SpecClient: client.call holds the inputs of the hook's last call *)

\* the last call of request threw
Threw == client.mounted /\ client.error # Null
\* the last call of request got a 401 to its first request
First401 ==
    /\ client.mounted /\ client.call.token = "ok"
    /\ Resolved(client.call.first) /\ client.call.first.status = 401

(* C24 as stated: a 401 is answered by one resend and no more, a call sends
   at most two requests, and it returns the response body or throws an
   ApiError with the status of the last response. *)
C24_ResendOnceOrApiError ==
    client.mounted =>
       /\ client.sent <= 2
       /\ First401 => client.sent = 2
       /\ Threw => /\ client.error.name = "ApiError"
                   /\ client.answer # Null =>
                         client.error.status = client.answer.status

(* C24: one call of request sends at most two requests to the endpoint and
   renews the token at most once; the second request is sent exactly when the
   first was answered 401 and the renewal succeeded.  The call returns the
   body of the last response, or throws: the Error of generateNewToken when
   no token could be had before the first request, an ApiError of status 0
   when a fetch or the renewal failed, and otherwise an ApiError with the
   status of the last response. *)
C24_AtMostOneResend ==
    client.mounted =>
       /\ client.sent <= 2 /\ client.renewals <= 1
       /\ client.sent = 2 <=> (First401 /\ client.call.renewed = "ok")
       /\ client.sent = 0 <=> client.call.token = "throws"
       /\ client.sent = 0 => client.error = TokenError
       /\ ~Threw => /\ Ok(client.answer) /\ client.data = client.answer.body
                    /\ client.answer
                          = (IF client.sent = 2 THEN client.call.second
                             ELSE client.call.first)
       /\ (Threw /\ client.sent > 0) =>
             /\ client.error.name = "ApiError"
             /\ LET sentLast == IF client.sent = 2 THEN client.call.second
                                ELSE client.call.first
                    failed == \/ ~Resolved(sentLast)
                              \/ (First401 /\ client.call.renewed = "throws")
                IN  IF failed
                    THEN client.error.status = 0
                    ELSE /\ client.answer = sentLast
                         /\ client.error.status = sentLast.status

\* a 401 was answered by a new token and one resend, the resent request got
\* a 401 as well, and the call threw it without a third request
C24_Witness ==
    /\ First401 /\ client.call.renewed = "ok"
    /\ Resolved(client.call.second) /\ client.call.second.status = 401
    /\ client.sent = 2 /\ client.renewals = 1
    /\ Threw /\ client.error = ApiError(401, "Invalid or expired token")
    /\ client.timer = Null

----------------------------------------------------------------------------
(* The automatic retry of useExternalData, on SpecClient *)

(* C25: for one query the hook schedules a retry after a 429 at most three
   times in a row: once three retries in a row have run, the 429 that
   answers the last of them schedules no further one. *)
C25_RetryCapped ==
    (client.mounted /\ client.retryCount >= 3
        /\ client.answer # Null /\ client.answer.status = 429)
    => client.timer = Null

====
